---- MODULE Spec2Model ----
(***************************************************************************)
(* The orientation-card component of access-mars                           *)
(* (src/js/components/orientation-card.js): the show/hide transition of    *)
(* the card, its two CardMesh panels (background and header), the trigger  *)
(* listeners registered in init, and the per-frame tick.                   *)
(*                                                                         *)
(* Time is counted in milliseconds, the unit of the dt the host passes to  *)
(* tick; the delays the component passes to the panels in seconds are      *)
(* written in milliseconds (0.05 s = 50, 0.25 s = 250).                    *)
(*                                                                         *)
(* The CardMesh class (../meshes/card-mesh) is modelled from the           *)
(* specification's CardPanel contract: a progress value animIn, a target,  *)
(* a remaining delay, show / hide / tick and a hide-complete notification. *)
(* Progress is counted in milliseconds of animation played, so that        *)
(* animationProgress = animIn / AnimDuration.                              *)
(***************************************************************************)
EXTENDS Integers, Sequences, FiniteSets, TLC

\* ------------------------------------------------------------------ bounds

\* Granularity of the frame durations the model draws, in ms.
FrameMs == 25

\* A tick lasts between 1 and MaxDtFrames granules.
MaxDtFrames == 3

\* The elapsed-time history counter saturates here (ms).
ElapsedCap == 325

\* The counter of outward hide-complete events saturates here.
MaxEmits == 2

\* The camera anchor moves along the view axis between 0 and MaxAnchor.
MaxAnchor == 1

DtSet == { FrameMs * k : k \in 1..MaxDtFrames }

\* ------------------------------------------------------- program constants

\* this.background.show( 0.25, 0.05 )
SHOW_BACKGROUND_DELAY == 250
SHOW_BACKGROUND_STAGGER == 50
\* this.header.show( 0.05 )
SHOW_HEADER_DELAY == 50
\* this.header.hide( 0.05, 0.25 )
HIDE_HEADER_DELAY == 50
HIDE_HEADER_STAGGER == 250

\* Length of a panel's show / hide animation in ms (CardPanel contract).
AnimDuration == 200

Min(a, b) == IF a < b THEN a ELSE b
Max(a, b) == IF a > b THEN a ELSE b

\* ---------------------------------------------------------------- CardPanel

\* new CardMesh( width, height ): hidden, at rest.
NewCardMesh == [ animIn |-> 0, target |-> 0, delay |-> 0 ]

\* CardPanel.show( delaySeconds, staggerSeconds = 0 ): head for progress 1
\* once the delay, and the stagger added to it, have elapsed.
CardShow(p, delay, stagger) ==
    [ p EXCEPT !.target = 1, !.delay = delay + stagger ]

\* CardPanel.hide( delaySeconds = 0, staggerSeconds = 0 ): head for progress 0
\* once the delay, and the stagger added to it, have elapsed.
CardHide(p, delay, stagger) ==
    [ p EXCEPT !.target = 0, !.delay = delay + stagger ]

\* CardPanel.advance( dt ): progress changes only once the configured delay
\* has elapsed, and then moves toward the target, staying within [0,1].
CardTick(p, dt) ==
    IF p.delay > 0
    THEN [ p EXCEPT !.delay = Max(0, p.delay - dt) ]
    ELSE IF p.target = 1
         THEN [ p EXCEPT !.animIn = Min(AnimDuration, p.animIn + dt) ]
         ELSE [ p EXCEPT !.animIn = Max(0, p.animIn - dt) ]

\* CardPanel.isAnimating: the delay has elapsed and the target is not reached.
IsAnimating(p) ==
    p.delay = 0 /\ p.animIn # p.target * AnimDuration

\* The panel's hide-complete notification: this advance took the progress of
\* a hiding panel to 0.
HideCompleted(p, q) ==
    p.target = 0 /\ p.animIn > 0 /\ q.animIn = 0

\* TransitionState, derived from the panels.
TransitionState(bg, hd) ==
    IF hd.target = 0 /\ bg.target = 0 /\ hd.animIn = 0 /\ bg.animIn = 0
    THEN "Hidden"
    ELSE IF hd.target = 1 /\ bg.target = 1
            /\ hd.animIn = AnimDuration /\ bg.animIn = AnimDuration
    THEN "Shown"
    ELSE IF hd.target = 1 THEN "Showing" ELSE "Hiding"

\* ------------------------------------------------------------------- state

VARIABLES
    background,   \* this.background (CardMesh)
    header,       \* this.header (CardMesh)
    sceneModal,   \* this.el.sceneEl.is( 'modal' )
    elStates,     \* the states of this.el
    textState,    \* this.headerText.is( 'visible' )
    elVisible,    \* this.el.getAttribute( 'visible' )
    last,         \* the last step: trigger, frame duration, handler that ran
    calls,        \* the show / hide calls the last step made on the panels
    emitted,      \* hide-complete events this.el emitted in the last step
    inCalls,      \* the panel calls of the most recent onShow
    outCalls,     \* the panel calls of the most recent onHide
    lastTrig,     \* "in" / "out": direction of the most recent handler
    from,         \* TransitionState when the most recent handler started
    elapsed,      \* ms of ticks since the most recent handler (saturating)
    emits,        \* outward hide-complete events since the most recent onShow
    hidSince,     \* an onHide found the header showing since the last onShow
    platform,     \* the platform class PlatformUtils reports
    anchor,       \* world position of the camera that carries #ui-dummy
    dummyZ,       \* this.positionDummy's own position.z
    elPosition,   \* this.el.getAttribute( 'position' )
    facing,       \* what look-at-target last oriented the card by
    effects,      \* the effects of the last step's onShow calls, in order
    bubbles       \* #orientation-back-meshes is a descendant of this.el

vars == << background, header, sceneModal, elStates, textState, elVisible,
           last, calls, emitted, inCalls, outCalls, lastTrig, from, elapsed,
           emits, hidSince, platform, anchor, dummyZ, elPosition, facing,
           effects, bubbles >>

Platforms == { "desktop", "mobile" }

\* PlatformUtils.getCardZOffset(): a depth offset per platform class.
CardZOffset(p) == IF p = "desktop" THEN 1 ELSE 2

\* positionDummy.object3D.getWorldPosition(): the dummy rides on the camera,
\* its own z added along the view axis.
WorldPosition(cam, z) == cam + z

StateNames == { "visible", "hovered" }

\* The component and the entities it touches, as one value the handlers
\* transform. bubbles tells whether the events of this.headerText, a
\* descendant of this.backEl, reach the listeners of this.el; gaOk whether
\* the analytics call returns in this step.
Cur ==
    [ background |-> background, header |-> header, modal |-> sceneModal,
      elStates |-> elStates, text |-> textState, visible |-> elVisible,
      calls |-> << >>, emitted |-> 0, ran |-> "none",
      platform |-> platform, anchor |-> anchor, dummyZ |-> dummyZ,
      position |-> elPosition, facing |-> facing, log |-> << >>,
      bubbles |-> bubbles, gaOk |-> TRUE ]

Call(panel, method, delay, stagger) ==
    [ panel |-> panel, method |-> method, delay |-> delay, stagger |-> stagger ]

\* --------------------------------------------------------------- component

\* The end of onShow: the platform's z offset on the position dummy, one
\* sample of its world position, the element moved there, and the look-at
\* rotation updated at once.
Reposition(c) ==
    LET z == CardZOffset(c.platform)
        uiPosition == WorldPosition(c.anchor, z)
    IN  [ c EXCEPT
            !.dummyZ = z,
            !.position = uiPosition,
            !.facing = [ pos |-> uiPosition, cam |-> c.anchor ],
            !.log = @ \o << "zOffset", "sample", "position", "lookAt" >> ]

RECURSIVE onShow(_)

\* The stateadded listener of init: only the 'visible' state reveals; the
\* analytics call comes first, and onShow is not reached when it throws.
\* The listener does not look at the event's target.
StateAddedListener(c, state, gaOk) ==
    IF state # "visible" THEN c
    ELSE IF ~gaOk THEN c
    ELSE onShow([ c EXCEPT !.gaOk = TRUE ])

\* this.headerText.addState( 'visible' ): nothing when the title has the
\* state; else the state is set and stateadded is dispatched, synchronously.
\* With the title inside this.el the event bubbles to the listener above;
\* an exception of that listener stays in the dispatch.
TextAddState(c) ==
    IF c.text
    THEN c
    ELSE IF c.bubbles
         THEN StateAddedListener([ c EXCEPT !.text = TRUE ], "visible", c.gaOk)
         ELSE [ c EXCEPT !.text = TRUE ]

\* The start of onShow: the scene's modal state and the title's state.
MarkShown(c) ==
    TextAddState([ c EXCEPT !.modal = TRUE,
                            !.log = @ \o << "modal", "title" >> ])

\* The two show calls of onShow: the background delayed, then the header.
ShowPanels(c) ==
    [ c EXCEPT
        !.background = CardShow(@, SHOW_BACKGROUND_DELAY, SHOW_BACKGROUND_STAGGER),
        !.header = CardShow(@, SHOW_HEADER_DELAY, 0),
        !.calls = @ \o << Call("background", "show", SHOW_BACKGROUND_DELAY,
                               SHOW_BACKGROUND_STAGGER),
                          Call("header", "show", SHOW_HEADER_DELAY, 0) >>,
        !.log = @ \o << "playIn" >>,
        !.ran = "onShow" ]

\* ShowPanels with the delay given to the header instead of the background.
ShowPanelsSwapped(c) ==
    [ c EXCEPT
        !.background = CardShow(@, SHOW_HEADER_DELAY, 0),
        !.header = CardShow(@, SHOW_BACKGROUND_DELAY, SHOW_BACKGROUND_STAGGER),
        !.calls = @ \o << Call("background", "show", SHOW_HEADER_DELAY, 0),
                          Call("header", "show", SHOW_BACKGROUND_DELAY,
                               SHOW_BACKGROUND_STAGGER) >>,
        !.log = @ \o << "playIn" >>,
        !.ran = "onShow" ]

\* onShow with the delay given to the header instead of the background.
onShowSwapped(c) ==
    Reposition(ShowPanelsSwapped(MarkShown(c)))

\* onShow that also makes the element visible at once.
onShowSetsVisible(c) ==
    [ Reposition(ShowPanels(MarkShown(c))) EXCEPT !.visible = TRUE ]

\* onShow: set the modal and title states, show the two panels, the
\* background delayed, then move the card in front of the camera and face it.
\* Where the title's event bubbles, a second onShow has run to its end
\* before the first shows the panels.
onShow(c) ==
    Reposition(ShowPanels(MarkShown(c)))

\* HidePanels with the reveal's arguments mirrored onto the other layer.
HidePanelsMirrored(c) ==
    [ c EXCEPT
        !.background = CardHide(@, SHOW_HEADER_DELAY, 0),
        !.header = CardHide(@, SHOW_BACKGROUND_DELAY, SHOW_BACKGROUND_STAGGER),
        !.calls = @ \o << Call("background", "hide", SHOW_HEADER_DELAY, 0),
                          Call("header", "hide", SHOW_BACKGROUND_DELAY,
                               SHOW_BACKGROUND_STAGGER) >>,
        !.ran = "onHide" ]

\* HidePanels with the delay given to the background instead of the header.
HidePanelsSwapped(c) ==
    [ c EXCEPT
        !.background = CardHide(@, HIDE_HEADER_DELAY, HIDE_HEADER_STAGGER),
        !.header = CardHide(@, 0, 0),
        !.calls = @ \o << Call("background", "hide", HIDE_HEADER_DELAY,
                               HIDE_HEADER_STAGGER),
                          Call("header", "hide", 0, 0) >>,
        !.ran = "onHide" ]

\* HidePanels that hides the background only and shows the header again.
HidePanelsShowHeader(c) ==
    [ c EXCEPT
        !.background = CardHide(@, 0, 0),
        !.header = CardShow(@, HIDE_HEADER_DELAY, HIDE_HEADER_STAGGER),
        !.calls = @ \o << Call("background", "hide", 0, 0),
                          Call("header", "show", HIDE_HEADER_DELAY,
                               HIDE_HEADER_STAGGER) >>,
        !.ran = "onHide" ]

\* HidePanels that forgets the header.
HidePanelsNoHeader(c) ==
    [ c EXCEPT
        !.background = CardHide(@, 0, 0),
        !.calls = @ \o << Call("background", "hide", 0, 0) >>,
        !.ran = "onHide" ]

\* The two hide calls that end onHide: the background at once, the header
\* delayed.
HidePanels(c) ==
    [ c EXCEPT
        !.background = CardHide(@, 0, 0),
        !.header = CardHide(@, HIDE_HEADER_DELAY, HIDE_HEADER_STAGGER),
        !.calls = @ \o << Call("background", "hide", 0, 0),
                          Call("header", "hide", HIDE_HEADER_DELAY,
                               HIDE_HEADER_STAGGER) >>,
        !.ran = "onHide" ]

\* onHide that leaves the element's own 'visible' state in place.
onHideKeepsState(c) ==
    HidePanels([ c EXCEPT !.modal = FALSE, !.text = FALSE ])

RECURSIVE onHide(_)

\* The stateremoved listener of init: only the 'visible' state dismisses.
StateRemovedListener(c, state) ==
    IF state # "visible" THEN c ELSE onHide(c)

\* this.el.removeState( state ): nothing when the state is absent; else the
\* state is removed and stateremoved is dispatched, synchronously, to the
\* listener above.
ElRemoveState(c, state) ==
    IF state \notin c.elStates
    THEN c
    ELSE StateRemovedListener([ c EXCEPT !.elStates = @ \ { state } ], state)

\* this.headerText.removeState( 'visible' ): nothing when the title lacks
\* the state; else the state is cleared and stateremoved is dispatched,
\* synchronously. With the title inside this.el the event bubbles to the
\* stateremoved listener of init.
TextRemoveState(c) ==
    IF ~c.text
    THEN c
    ELSE IF c.bubbles
         THEN StateRemovedListener([ c EXCEPT !.text = FALSE ], "visible")
         ELSE [ c EXCEPT !.text = FALSE ]

\* onHide: clear the modal state, the element's own 'visible' state and the
\* title's state, then hide the two panels. Each of the two removals that
\* finds its state set runs one more onHide before this one goes on.
onHide(c) ==
    LET c1 == [ c EXCEPT !.modal = FALSE ]
        c2 == ElRemoveState(c1, "visible")
        c3 == TextRemoveState(c2)
    IN  HidePanels(c3)

\* this.el.addState( state ) by the host: nothing when the state is present;
\* else the state is added and stateadded is dispatched to the listener.
ElAddState(c, state, gaOk) ==
    IF state \in c.elStates
    THEN c
    ELSE StateAddedListener([ c EXCEPT !.elStates = @ \cup { state } ],
                            state, gaOk)

\* The raycaster-cursor-up listener of init: the analytics call, then onHide.
CursorUpListener(c, gaOk) ==
    IF ~gaOk THEN c ELSE onHide(c)

\* A listener that re-emits the notification of either panel.
HideCompleteListenerBoth(bgDone, hdDone) ==
    (IF bgDone THEN 1 ELSE 0) + (IF hdDone THEN 1 ELSE 0)

\* The hide-complete listener of init: the header's notification, and only
\* the header's, is re-emitted on the element.
HideCompleteListener(bgDone, hdDone) ==
    IF hdDone THEN 1 ELSE 0

\* tick that sets the visible attribute before it advances the panels.
tickStale(c, dt) ==
    LET bg == CardTick(c.background, dt)
        hd == CardTick(c.header, dt)
    IN  [ c EXCEPT
            !.background = bg,
            !.header = hd,
            !.emitted = @ + (IF HideCompleted(c.header, hd) THEN 1 ELSE 0),
            !.visible = (c.header.animIn > 0) ]

\* tick that also moves the element to the position dummy every frame.
tickFollow(c, dt) ==
    LET bg == CardTick(c.background, dt)
        hd == CardTick(c.header, dt)
    IN  [ c EXCEPT
            !.background = bg,
            !.header = hd,
            !.emitted = @ + (IF HideCompleted(c.header, hd) THEN 1 ELSE 0),
            !.visible = (hd.animIn > 0),
            !.position = WorldPosition(c.anchor, c.dummyZ) ]

\* tick: advance the background, then the header, then set the element's
\* visible attribute from the header's progress.
tick(c, dt) ==
    LET bg == CardTick(c.background, dt)
        hd == CardTick(c.header, dt)
    IN  [ c EXCEPT
            !.background = bg,
            !.header = hd,
            !.emitted = @ + HideCompleteListener(
                                HideCompleted(c.background, bg),
                                HideCompleted(c.header, hd)),
            !.visible = (hd.animIn > 0) ]

\* ----------------------------------------------------------------- actions

\* The state after a step that took the component to c.
Commit(c, op, dt) ==
    /\ background' = c.background
    /\ header' = c.header
    /\ sceneModal' = c.modal
    /\ elStates' = c.elStates
    /\ textState' = c.text
    /\ elVisible' = c.visible
    /\ last' = [ op |-> op, dt |-> dt, ran |-> c.ran ]
    /\ calls' = c.calls
    /\ emitted' = c.emitted
    /\ inCalls' = IF c.ran = "onShow" THEN c.calls ELSE inCalls
    /\ outCalls' = IF c.ran = "onHide" THEN c.calls ELSE outCalls
    /\ lastTrig' = IF c.ran = "onShow" THEN "in"
                   ELSE IF c.ran = "onHide" THEN "out" ELSE lastTrig
    /\ from' = IF c.ran # "none"
               THEN TransitionState(background, header) ELSE from
    /\ elapsed' = IF c.ran # "none" THEN 0 ELSE Min(ElapsedCap, elapsed + dt)
    /\ emits' = IF c.ran = "onShow" THEN 0 ELSE Min(MaxEmits, emits + c.emitted)
    /\ hidSince' = IF c.ran = "onShow" THEN FALSE
                   ELSE IF c.ran = "onHide" THEN hidSince \/ header.animIn > 0
                   ELSE hidSince
    /\ platform' = c.platform
    /\ anchor' = c.anchor
    /\ dummyZ' = c.dummyZ
    /\ elPosition' = c.position
    /\ facing' = c.facing
    /\ effects' = c.log
    /\ bubbles' = c.bubbles

\* The card after init, the scene around it aside.
InitCard ==
    /\ background = NewCardMesh
    /\ header = NewCardMesh
    /\ sceneModal = FALSE
    /\ elStates = { }
    /\ textState = FALSE
    /\ elVisible \in BOOLEAN
    /\ last = [ op |-> "init", dt |-> 0, ran |-> "none" ]
    /\ calls = << >>
    /\ emitted = 0
    /\ inCalls = << >>
    /\ outCalls = << >>
    /\ lastTrig = "none"
    /\ from = "Hidden"
    /\ elapsed = 0
    /\ emits = 0
    /\ hidSince = FALSE
    /\ dummyZ = 0
    /\ elPosition = 0
    /\ facing = [ pos |-> 0, cam |-> anchor ]
    /\ effects = << >>
    /\ bubbles \in BOOLEAN

\* A desktop session with the camera at rest.
Init ==
    /\ platform = "desktop"
    /\ anchor = 0
    /\ InitCard

\* Any platform, the camera anywhere.
InitScene ==
    /\ platform \in Platforms
    /\ anchor \in 0..MaxAnchor
    /\ InitCard

\* The viewer moves the camera.
MoveCamera(to) ==
    /\ to \in 0..MaxAnchor
    /\ to # anchor
    /\ anchor' = to
    /\ last' = [ op |-> "camera", dt |-> 0, ran |-> "none" ]
    /\ calls' = << >>
    /\ emitted' = 0
    /\ effects' = << >>
    /\ UNCHANGED << background, header, sceneModal, elStates, textState,
                    elVisible, inCalls, outCalls, lastTrig, from, elapsed,
                    emits, hidSince, platform, dummyZ, elPosition, facing,
                    bubbles >>

\* The host adds a state to the element (stateadded).
AddState(state, gaOk) ==
    /\ state \notin elStates
    /\ Commit(ElAddState(Cur, state, gaOk), "stateadded", 0)

\* The host removes a state from the element (stateremoved).
RemoveState(state) ==
    /\ state \in elStates
    /\ Commit(ElRemoveState(Cur, state), "stateremoved", 0)

\* The hitbox is clicked (raycaster-cursor-up).
CursorUp(gaOk) ==
    /\ gaOk \in BOOLEAN
    /\ Commit(CursorUpListener(Cur, gaOk), "click", 0)

\* The host's frame callback.
Tick(dt) ==
    /\ dt \in DtSet
    /\ Commit(tick(Cur, dt), "tick", dt)

\* Another component calls the methods directly; the analytics call a
\* bubbling event leads to may throw.
CallOnShow ==
    \E gaOk \in BOOLEAN :
        Commit(onShow([ Cur EXCEPT !.gaOk = gaOk ]), "onShow", 0)

CallOnHide ==
    Commit(onHide(Cur), "onHide", 0)

StateAdded == \E state \in StateNames, gaOk \in BOOLEAN : AddState(state, gaOk)
StateRemoved == \E state \in StateNames : RemoveState(state)
Click == \E gaOk \in BOOLEAN : CursorUp(gaOk)
Frame == \E dt \in DtSet : Tick(dt)

\* The component driven by its listeners and the frame callback.
Next ==
    \/ StateAdded
    \/ StateRemoved
    \/ Click
    \/ Frame

Spec == Init /\ [][Next]_vars

\* The same, with the methods also called directly.
NextApi ==
    \/ StateAdded
    \/ StateRemoved
    \/ Click
    \/ Frame
    \/ CallOnShow
    \/ CallOnHide

SpecApi == Init /\ [][NextApi]_vars

\* The frame callback keeps being called.
FairSpec == Spec /\ WF_vars(Frame)

CameraMoved == \E to \in 0..MaxAnchor : MoveCamera(to)

\* The component in a scene whose camera moves, on any platform.
NextScene ==
    \/ StateAdded
    \/ StateRemoved
    \/ Click
    \/ Frame
    \/ CameraMoved

SpecScene == InitScene /\ [][NextScene]_vars

\* ------------------------------------------------------------------ claims

Hidden == TransitionState(background, header) = "Hidden"
Shown == TransitionState(background, header) = "Shown"

\* The last call a handler made on a panel.
LastCallTo(cs, panel) ==
    LET idx == { i \in 1..Len(cs) : cs[i].panel = panel }
    IN  cs[CHOOSE i \in idx : \A j \in idx : j <= i]

\* C1: after every tick the element's visible attribute equals
\* (header progress > 0), the progress being the one that tick produced.
C1_VisibleTracksHeader ==
    last.op = "tick" => (elVisible <=> header.animIn > 0)

\* C1 witness: the tick in which the header reached exactly 0 (its
\* completion was emitted in that tick) left the attribute false.
C1_Witness ==
    /\ last.op = "tick"
    /\ emitted = 1
    /\ header.animIn = 0
    /\ ~elVisible

\* C2: hide-complete is emitted on the element exactly once per hide of a
\* showing header, when the header is back at 0; never while a reveal is
\* the latest transition; never twice without an onShow in between.
C2_HideCompleteOnce ==
    /\ emits <= 1
    /\ emits >= 1 => lastTrig = "out"
    /\ emits = (IF hidSince /\ header.animIn = 0 THEN 1 ELSE 0)

\* C2 witness: a dismiss that ran onHide more than once (three times, with
\* the title's event bubbling) has completed, and the event was emitted in
\* the last tick.
C2_Witness ==
    /\ emits = 1
    /\ emitted = 1
    /\ Len(outCalls) = 6
    /\ last.op = "tick"

\* C3 (as claimed): an onShow that follows an onShow, with no onHide in
\* between, leaves both panels as they were.
C3_PlayInIdempotent ==
    [][ (last'.ran = "onShow" /\ lastTrig = "in")
            => (background' = background /\ header' = header) ]_vars

\* C4 (as claimed): a dismiss trigger that finds the card Hidden makes no
\* hide call, leaves both panels unchanged and emits nothing.
C4_DismissHiddenNoOp ==
    [][ (last'.op \in { "click", "stateremoved" } /\ Hidden)
            => /\ calls' = << >>
               /\ background' = background
               /\ header' = header
               /\ emitted' = 0 ]_vars

\* C5 (as claimed): the (delay, stagger) each layer gets on playIn is what
\* the other layer gets on playOut.
C5_ArgumentsMirrored ==
    (inCalls # << >> /\ outCalls # << >>) =>
        LET ib == LastCallTo(inCalls, "background")
            ih == LastCallTo(inCalls, "header")
            ob == LastCallTo(outCalls, "background")
            oh == LastCallTo(outCalls, "header")
        IN  /\ << ih.delay, ih.stagger >> = << ob.delay, ob.stagger >>
            /\ << ib.delay, ib.stagger >> = << oh.delay, oh.stagger >>

\* C5 (amended): the layer order is reversed (the header gets the smaller
\* delay on playIn, the background on playOut), and the trailing layer gets
\* the same two numbers in both directions with delay and stagger swapped;
\* the leading layer gets the reveal's stagger as its delay on playIn and no
\* delay at all on playOut.
C5_OrderReversed ==
    (inCalls # << >> /\ outCalls # << >>) =>
        LET ib == LastCallTo(inCalls, "background")
            ih == LastCallTo(inCalls, "header")
            ob == LastCallTo(outCalls, "background")
            oh == LastCallTo(outCalls, "header")
        IN  /\ ih.delay < ib.delay
            /\ ob.delay < oh.delay
            /\ << oh.delay, oh.stagger >> = << ib.stagger, ib.delay >>
            /\ << ih.delay, ih.stagger >> = << ib.stagger, 0 >>
            /\ << ob.delay, ob.stagger >> = << 0, 0 >>

\* C5 witness: both a reveal and a dismiss have made their panel calls.
C5_Witness ==
    /\ inCalls # << >>
    /\ outCalls # << >>
    /\ LastCallTo(inCalls, "background").method = "show"
    /\ LastCallTo(outCalls, "header").method = "hide"

\* onShow ran on a Hidden card, and only frames have passed since.
RevealScenario == lastTrig = "in" /\ from = "Hidden"

\* onHide ran on a Shown card, and only frames have passed since.
HideScenario == lastTrig = "out" /\ from = "Shown"

\* onHide ran while the reveal was still under way.
RedirectScenario == lastTrig = "out" /\ from = "Showing"

\* C6: after a reveal of a Hidden card, the header is not animating before
\* 0.05 s of frames; from 0.05 s on its delay has elapsed, and it is
\* animating until it can have reached 1; before 0.25 s the background is
\* not animating and is still at 0; from 0.30 s on the background's
\* delay has elapsed (at 0.30 s exactly it is animating); and if frames keep
\* coming the card becomes Shown, unless another trigger intervenes.
C6_RevealTiming ==
    /\ [](RevealScenario =>
            /\ elapsed < SHOW_HEADER_DELAY
                   => (~IsAnimating(header) /\ header.animIn = 0)
            /\ (elapsed >= SHOW_HEADER_DELAY
                    /\ elapsed < SHOW_HEADER_DELAY + AnimDuration)
                   => IsAnimating(header)
            /\ elapsed >= SHOW_HEADER_DELAY
                   => (header.delay = 0 /\ header.target = 1)
            /\ elapsed < SHOW_BACKGROUND_DELAY
                   => (~IsAnimating(background) /\ background.animIn = 0)
            /\ elapsed >= SHOW_BACKGROUND_DELAY + SHOW_BACKGROUND_STAGGER
                   => /\ background.delay = 0
                      /\ IsAnimating(background) \/ background.animIn = AnimDuration
            /\ elapsed = SHOW_BACKGROUND_DELAY + SHOW_BACKGROUND_STAGGER
                   => IsAnimating(background))
    /\ (RevealScenario ~> (Shown \/ ~RevealScenario))

\* C6 witness: the reveal of a Hidden card has run to Shown.
C6_Witness ==
    /\ RevealScenario
    /\ Shown
    /\ elapsed >= SHOW_BACKGROUND_DELAY + SHOW_BACKGROUND_STAGGER

\* C7: after a dismiss of a Shown card the background has fallen below 1
\* after the first frame; the header is below 1 only once 0.05 s of frames
\* have elapsed; hide-complete is emitted only in a tick that leaves the
\* header at 0, and once the header is at 0 the event has been emitted and
\* the visible attribute is false.
C7_HideTiming ==
    HideScenario =>
        /\ elapsed > 0 => background.animIn < AnimDuration
        /\ header.animIn < AnimDuration => elapsed >= HIDE_HEADER_DELAY
        /\ emitted = 1 => (last.op = "tick" /\ header.animIn = 0)
        /\ header.animIn = 0 => (emits = 1 /\ ~elVisible)

\* C7 witness: the tick that took the header to 0 after a dismiss of a
\* Shown card.
C7_Witness ==
    /\ HideScenario
    /\ last.op = "tick"
    /\ emitted = 1
    /\ header.animIn = 0
    /\ ~elVisible

\* C8: from a dismiss issued during the reveal on, no step raises the
\* progress of either panel, the dismiss itself leaves both where they are,
\* and a tick lowers a progress by no more than its own duration.
C8_RedirectMonotone ==
    [][ (lastTrig' = "out" /\ from' = "Showing")
            => /\ header'.animIn <= header.animIn
               /\ background'.animIn <= background.animIn
               /\ header.animIn - header'.animIn <= last'.dt
               /\ background.animIn - background'.animIn <= last'.dt ]_vars

\* C8 witness: the header, caught part-way up by the dismiss, is part-way
\* down after its hide delay.
C8_Witness ==
    /\ RedirectScenario
    /\ last.op = "tick"
    /\ header.delay = 0
    /\ elapsed > HIDE_HEADER_DELAY + HIDE_HEADER_STAGGER
    /\ header.animIn > 0
    /\ header.animIn < AnimDuration

\* C9 (as claimed): whatever the analytics call does, adding the 'visible'
\* state runs onShow and a click on the hitbox runs onHide.
C9_AnalyticsNeverBlocks ==
    [][ /\ (last'.op = "stateadded" /\ "visible" \in elStates' \ elStates)
               => last'.ran = "onShow"
        /\ last'.op = "click" => last'.ran = "onHide" ]_vars

\* The card at rest after a dismiss.
HiddenAtRest == Hidden /\ ~elVisible

\* C10 (as claimed): after a dismiss of a card that is not Hidden, frames
\* that keep coming bring the card to Hidden with the visible attribute
\* false and hide-complete emitted, unless a reveal is triggered.
C10_DismissEndsEmitted ==
    (lastTrig = "out" /\ from # "Hidden")
        ~> ((HiddenAtRest /\ emits = 1) \/ lastTrig = "in")

\* C10 (amended): after a dismiss, frames that keep coming bring the card to
\* Hidden with the visible attribute false, unless a reveal or another
\* dismiss is triggered; hide-complete has then been emitted exactly when a
\* dismiss found the header showing.
C10_HideLiveness ==
    (lastTrig = "out" /\ last.op = "tick")
        ~> ((HiddenAtRest /\ emits = (IF hidSince THEN 1 ELSE 0))
            \/ last.ran # "none")

\* C10 witness: a dismissed card has come to rest, its event emitted.
C10_Witness ==
    /\ lastTrig = "out"
    /\ last.op = "tick"
    /\ HiddenAtRest
    /\ hidSince
    /\ emits = 1

\* The number of calls a step made on one panel.
CallsTo(cs, panel) ==
    Cardinality({ i \in 1..Len(cs) : cs[i].panel = panel })

\* C12 (as claimed): a click whose listener runs onHide makes exactly one
\* hide call on each panel: no second onHide runs inside the first.
C12_OneHidePerClick ==
    [][ (last'.op = "click" /\ last'.ran = "onHide")
            => /\ CallsTo(calls', "background") = 1
               /\ CallsTo(calls', "header") = 1 ]_vars

\* C13: in every step in which the element emits hide-complete, the
\* background is at progress 0 when the header arrives there: the header
\* is the last panel to finish hiding.
C13_HeaderHidesLast ==
    emitted >= 1 => (header.animIn = 0 /\ background.animIn = 0)

\* C13 witness: the event of a hide that was issued during the reveal.
C13_Witness ==
    /\ emitted = 1
    /\ last.op = "tick"
    /\ RedirectScenario
    /\ background.animIn = 0

\* The layer a handler's calls start last: the one given the greater
\* delay plus stagger.
Trailing(cs) ==
    LET b == LastCallTo(cs, "background")
        h == LastCallTo(cs, "header")
    IN  IF b.delay + b.stagger > h.delay + h.stagger THEN "background"
        ELSE IF h.delay + h.stagger > b.delay + b.stagger THEN "header"
        ELSE "neither"

\* C14 (as claimed): the layer that starts last on playIn is the layer that
\* starts last on playOut.
C14_LastInLastOut ==
    (inCalls # << >> /\ outCalls # << >>)
        => Trailing(inCalls) = Trailing(outCalls)

\* C14 (amended): the layer that starts last on playIn, the background, is
\* the one that starts first on playOut; the header starts first on playIn
\* and last on playOut. Right after onShow the background has the longer
\* delay to wait, right after onHide the header has.
C14_FirstInLastOut ==
    /\ inCalls # << >> => Trailing(inCalls) = "background"
    /\ outCalls # << >> => Trailing(outCalls) = "header"
    /\ last.ran = "onShow" => header.delay < background.delay
    /\ last.ran = "onHide" => background.delay < header.delay

\* C14 witness: a card that was revealed has just been dismissed, and the
\* header is the panel left waiting.
C14_Witness ==
    /\ inCalls # << >>
    /\ last.ran = "onHide"
    /\ Trailing(outCalls) = "header"
    /\ background.delay = 0
    /\ header.delay > 0

\* The effects of one onShow call, in the order of its statements.
RevealOrder ==
    << "modal", "title", "playIn", "zOffset", "sample", "position", "lookAt" >>

\* C15 (as claimed): a step in which onShow ran made its effects in this
\* order, each of them once, within a single handler call: the modal state,
\* the title's visible state, the panels' show calls, the platform's z
\* offset, one sample of the anchor, the element's position, the look-at
\* update; and it leaves the element at the sampled position (the anchor
\* plus the platform's offset) with the orientation computed for that
\* position, before any tick.
C15_RevealOrder ==
    last.ran = "onShow" =>
        /\ effects = RevealOrder
        /\ sceneModal
        /\ textState
        /\ dummyZ = CardZOffset(platform)
        /\ elPosition = WorldPosition(anchor, dummyZ)
        /\ facing = [ pos |-> elPosition, cam |-> anchor ]

\* C16: only a tick changes the element's visible attribute: every other
\* step (a reveal, a dismiss, a direct call, a listener that returns
\* early) leaves it as it was, and a tick sets it from the header's
\* progress.
C16_OnlyTickSetsVisible ==
    [][ IF last'.op = "tick"
        THEN elVisible' = (header'.animIn > 0)
        ELSE elVisible' = elVisible ]_vars

\* C16 witness: right after a dismiss click the card is still visible, and
\* its header still showing.
C16_Witness ==
    /\ last.op = "click"
    /\ last.ran = "onHide"
    /\ elVisible
    /\ header.animIn > 0
    /\ ~sceneModal

\* C17: the element's position changes only in a step in which onShow ran:
\* every tick, every dismiss, every listener that returns early and every
\* move of the camera leaves it where the last reveal put it.
C17_PositionOnlyOnReveal ==
    [][ last'.ran # "onShow" => elPosition' = elPosition ]_vars

\* C17 witness: the camera has moved since the reveal, a dismiss and a tick
\* have followed, and the card is still where it was anchored, away from
\* where the position dummy is now.
C17_Witness ==
    /\ inCalls # << >>
    /\ lastTrig = "out"
    /\ last.op = "tick"
    /\ elPosition # WorldPosition(anchor, dummyZ)
    /\ elPosition = WorldPosition(facing.cam, dummyZ)

\* C18: in the state a step leaves in which onShow or onHide ran, reached
\* through the listeners only, the scene's modal state, the element's
\* 'visible' state and the title's 'visible' state are all set or all
\* cleared.
C18_FlagsAgree ==
    last.ran # "none" =>
        /\ sceneModal <=> ("visible" \in elStates)
        /\ textState <=> sceneModal
        /\ sceneModal <=> (last.ran = "onShow")

\* C18 witness: a click on a revealed card, whose onHide removed the
\* element's state itself, has cleared all three.
C18_Witness ==
    /\ last.op = "click"
    /\ last.ran = "onHide"
    /\ Len(calls) >= 4
    /\ lastTrig = "out"
    /\ from = "Shown"
    /\ ~sceneModal
    /\ ~textState
    /\ "visible" \notin elStates

====
